---- MODULE Spec2Model ----
(***************************************************************************)
(* libmemtrack (memtrack.cpp): provider resolution (get_aidl_instance,     *)
(* get_hidl_instance), the per-type record fetch (memtrack_proc_get_type), *)
(* the snapshot population loop (memtrack_proc_get) and the aggregation    *)
(* (memtrack_proc_sum and the six category queries).                       *)
(***************************************************************************)
EXTENDS Integers, Sequences, FiniteSets, TLC

(***************************************************************************)
(* Bounds of the model.                                                    *)
(***************************************************************************)
\* Most records one snapshot holds over all its types.
MaxTotal == 2
\* The ghost counters of external calls saturate here.
MaxCount == 2
\* Concurrent callers of the resolution.
NumThreads == 2

(***************************************************************************)
(* Program constants.                                                      *)
(***************************************************************************)
\* MemtrackType, in enumeration order (OTHER is a reserved word of TLA+,
\* so the enumerators carry the prefix TYPE_).
TYPE_OTHER == 0
TYPE_GL == 1
TYPE_GRAPHICS == 2
TYPE_MULTIMEDIA == 3
TYPE_CAMERA == 4
NUM_TYPES == 5

\* MemtrackFlag bits.
SMAPS_ACCOUNTED == 2
SMAPS_UNACCOUNTED == 4
SHARED == 8
SHARED_PSS == 16

EINVAL == 22

Types == 0 .. (NUM_TYPES - 1)

(***************************************************************************)
(* Records.  MemtrackRecord is {sizeInBytes, flags}; the sizes the         *)
(* providers report are non-negative.                                      *)
(***************************************************************************)
Rec(size, flags) == [sizeInBytes |-> size, flags |-> flags]

\* The records a provider reports in this model: an accounted one, and one
\* that carries SHARED and SHARED_PSS together and a bit no enumerator
\* defines, and neither SMAPS_ACCOUNTED nor SMAPS_UNACCOUNTED.
HalRecords ==
    { Rec(100, SMAPS_ACCOUNTED),
      Rec(50, SHARED + SHARED_PSS + 2 ^ 10) }

\* All sequences over S of length n, and of length at most n.
RECURSIVE SeqsOfLen(_, _)
SeqsOfLen(S, n) ==
    IF n = 0 THEN { <<>> }
    ELSE { Append(s, x) : s \in SeqsOfLen(S, n - 1), x \in S }

RECURSIVE SeqsUpTo(_, _)
SeqsUpTo(S, n) ==
    IF n = 0 THEN { <<>> }
    ELSE SeqsOfLen(S, n) \cup SeqsUpTo(S, n - 1)

\* The record lists a provider may hand over in one reply.
HalLists == SeqsUpTo(HalRecords, MaxTotal)

\* Number of records held by the types in T.
RECURSIVE TotalRecords(_, _)
TotalRecords(types, T) ==
    IF T = {} THEN 0
    ELSE LET t == CHOOSE x \in T : TRUE
         IN  Len(types[t]) + TotalRecords(types, T \ {t})

(***************************************************************************)
(* uint32_t bitwise and.                                                   *)
(***************************************************************************)
RECURSIVE BitAnd(_, _)
BitAnd(a, b) ==
    IF a = 0 \/ b = 0 THEN 0
    ELSE (a % 2) * (b % 2) + 2 * BitAnd(a \div 2, b \div 2)

(***************************************************************************)
(* memtrack_proc_sum and the category queries.                             *)
(***************************************************************************)
\* A mutant: any overlap with the mask counts.
FlagsOverlap(recflags, flags) ==
    flags = 0 \/ BitAnd(recflags, flags) # 0

\* if ((records[j].flags & flags) == flags)
FlagsMatch(recflags, flags) ==
    BitAnd(recflags, flags) = flags

\* The inner loop over the records of one type, from index j on.
RECURSIVE SumRecords(_, _, _)
SumRecords(records, j, flags) ==
    IF j > Len(records) THEN 0
    ELSE (IF FlagsMatch(records[j].flags, flags)
          THEN records[j].sizeInBytes ELSE 0)
         + SumRecords(records, j + 1, flags)

\* The outer loop over the vector of types, from index i on.
RECURSIVE SumTypes(_, _, _, _)
SumTypes(ptypes, types, i, flags) ==
    IF i > Len(types) THEN 0
    ELSE SumRecords(ptypes[types[i]], 1, flags)
         + SumTypes(ptypes, types, i + 1, flags)

\* A mutant: the accumulator starts anew with every type, so the sum is that
\* of the last type of the vector.
memtrack_proc_sum_last_type(ptypes, types, flags) ==
    SumRecords(ptypes[types[Len(types)]], 1, flags)

memtrack_proc_sum(ptypes, types, flags) ==
    SumTypes(ptypes, types, 1, flags)

memtrack_proc_graphics_total(ptypes) ==
    memtrack_proc_sum(ptypes, << TYPE_GRAPHICS >>, 0)

memtrack_proc_graphics_pss(ptypes) ==
    memtrack_proc_sum(ptypes, << TYPE_GRAPHICS >>, SMAPS_UNACCOUNTED)

\* A mutant: the GL total takes the records of GRAPHICS as well.
gl_total_with_graphics(ptypes) ==
    memtrack_proc_sum(ptypes, << TYPE_GL, TYPE_GRAPHICS >>, 0)

memtrack_proc_gl_total(ptypes) ==
    memtrack_proc_sum(ptypes, << TYPE_GL >>, 0)

memtrack_proc_gl_pss(ptypes) ==
    memtrack_proc_sum(ptypes, << TYPE_GL >>, SMAPS_UNACCOUNTED)

\* A mutant: the "other" category forgets CAMERA.
other_total_no_camera(ptypes) ==
    memtrack_proc_sum(ptypes, << TYPE_MULTIMEDIA, TYPE_OTHER >>, 0)

memtrack_proc_other_total(ptypes) ==
    memtrack_proc_sum(ptypes, << TYPE_MULTIMEDIA, TYPE_CAMERA, TYPE_OTHER >>, 0)

memtrack_proc_other_pss(ptypes) ==
    memtrack_proc_sum(ptypes, << TYPE_MULTIMEDIA, TYPE_CAMERA, TYPE_OTHER >>,
                      SMAPS_UNACCOUNTED)

(***************************************************************************)
(* State.                                                                  *)
(***************************************************************************)
VARIABLES
    glob,    \* the function-local statics of get_*_instance
    obs,     \* ghost: external calls made and results handed out so far
    p,       \* the memtrack_proc snapshot: pid and the per-type record lists
    pc,      \* position of the caller: "idle", "fetch" (memtrack_proc_get
             \* enters memtrack_proc_get_type), "getMemory" (the provider
             \* is being asked) or "done" (the call returned)
    i,       \* loop index of memtrack_proc_get
    svc,     \* the provider memtrack_proc_get_type resolved for this fetch
    api,     \* the API call most recently begun, with its arguments
    ret,     \* its return value
    calls,   \* ghost: the provider calls it issued, in order
    last,    \* ghost: the last memtrack_proc_get_type and what the provider said
    q,       \* the aggregation query most recently answered
    th       \* the concurrent callers of the resolution

vars == << glob, obs, p, pc, i, svc, api, ret, calls, last, q, th >>

Threads == 1 .. NumThreads

Envs == [isDeclared : BOOLEAN, aidlService : BOOLEAN, hidlService : BOOLEAN]

\* static bool declared / static SpAIBinder memtrack_binder /
\* static sp<IMemtrack> module / static bool logged, with the guard of each
\* dynamically initialised static: "uninit", "busy" (a thread is running the
\* initialiser) or "done".
GlobInit ==
    [ declared_guard |-> "uninit", declared |-> FALSE,
      binder_guard |-> "uninit", memtrack_binder |-> "nullptr",
      module_guard |-> "uninit", module |-> "nullptr",
      logged |-> FALSE ]

ObsInit ==
    [ n_isDeclared |-> 0, n_waitForService |-> 0, n_getService |-> 0,
      n_ALOGE |-> 0, n_aidl |-> 0, n_hidl |-> 0,
      first_aidl |-> "unset", last_aidl |-> "unset",
      first_hidl |-> "unset", last_hidl |-> "unset",
      stale |-> FALSE, providers |-> {} ]

\* new memtrack_proc(): value-initialised, every record vector empty.
memtrack_proc_new == [pid |-> 0, types |-> [t \in Types |-> <<>>]]

NoFetch == [provider |-> "none"]
NoQuery == [fn |-> "none"]
NoApi == [fn |-> "none"]
ThInit == [t \in Threads |-> [pc |-> "idle", service |-> "unset", module |-> "unset"]]

Inc(n) == IF n < MaxCount THEN n + 1 ELSE n

(***************************************************************************)
(* Provider resolution, as one caller at a time runs it.  w is the pair    *)
(* [glob, obs]; e is what the service managers answer at the time of the   *)
(* call, an input of every operation that resolves.                        *)
(***************************************************************************)
\* A mutant: the declaration is asked for on every call.
declared_unguarded(w, e) ==
    [w EXCEPT !.glob.declared_guard = "done",
              !.glob.declared = e.isDeclared,
              !.obs.n_isDeclared = Inc(@)]

\* static bool declared = AServiceManager_isDeclared(instance.c_str());
declared_static(w, e) ==
    IF w.glob.declared_guard = "done" THEN w
    ELSE [w EXCEPT !.glob.declared_guard = "done",
                   !.glob.declared = e.isDeclared,
                   !.obs.n_isDeclared = Inc(@)]

\* static ndk::SpAIBinder memtrack_binder =
\*     ndk::SpAIBinder(AServiceManager_waitForService(instance.c_str()));
\* The service manager hands over a binder or none.
binder_static(w, e) ==
    IF w.glob.binder_guard = "done" THEN w
    ELSE [w EXCEPT !.glob.binder_guard = "done",
                   !.glob.memtrack_binder =
                        IF e.aidlService THEN "binder" ELSE "nullptr",
                   !.obs.n_waitForService = Inc(@)]

\* V_aidl::IMemtrack::fromBinder: no interface from no binder.
fromBinder(binder) == IF binder = "nullptr" THEN "nullptr" ELSE "aidl"

\* Ghost: note a result handed out by get_aidl_instance, and whether the
\* environment of this call would by now answer otherwise.
NoteAidl(w, service, e) ==
    [w EXCEPT !.obs.n_aidl = Inc(@),
              !.obs.first_aidl = IF @ = "unset" THEN service ELSE @,
              !.obs.last_aidl = service,
              !.obs.stale =
                  IF service = (IF e.isDeclared /\ e.aidlService
                                THEN "aidl" ELSE "nullptr")
                  THEN @ ELSE TRUE]

get_aidl_instance(w, e) ==
    LET w1 == declared_static(w, e)
    IN  IF ~w1.glob.declared
        THEN [w |-> NoteAidl(w1, "nullptr", e), service |-> "nullptr"]
        ELSE LET w2 == binder_static(w1, e)
                 service == fromBinder(w2.glob.memtrack_binder)
             IN  [w |-> NoteAidl(w2, service, e), service |-> service]

\* static android::sp<IMemtrack> module = IMemtrack::getService();
module_static(w, e) ==
    IF w.glob.module_guard = "done" THEN w
    ELSE [w EXCEPT !.glob.module_guard = "done",
                   !.glob.module = IF e.hidlService THEN "hidl" ELSE "nullptr",
                   !.obs.n_getService = Inc(@)]

\* A mutant: the flag is never set.
log_always(w) ==
    IF w.glob.module = "nullptr" /\ ~w.glob.logged
    THEN [w EXCEPT !.obs.n_ALOGE = Inc(@)]
    ELSE w

\* if (module == nullptr && !logged) { logged = true; ALOGE(...); }
log_once(w) ==
    IF w.glob.module = "nullptr" /\ ~w.glob.logged
    THEN [w EXCEPT !.glob.logged = TRUE, !.obs.n_ALOGE = Inc(@)]
    ELSE w

\* Ghost: note a result handed out by get_hidl_instance, and whether the
\* environment of this call would by now answer otherwise.
NoteHidl(w, module, e) ==
    [w EXCEPT !.obs.n_hidl = Inc(@),
              !.obs.first_hidl = IF @ = "unset" THEN module ELSE @,
              !.obs.last_hidl = module,
              !.obs.stale =
                  IF module = (IF e.hidlService THEN "hidl" ELSE "nullptr")
                  THEN @ ELSE TRUE]

get_hidl_instance(w, e) ==
    LET w1 == log_once(module_static(w, e))
    IN  [w |-> NoteHidl(w1, w1.glob.module, e), module |-> w1.glob.module]

(***************************************************************************)
(* memtrack_proc_get_type.                                                 *)
(***************************************************************************)
\* std::vector::resize: cut, or pad with value-initialised records.
Resize(records, n) ==
    [k \in 1 .. n |-> IF k <= Len(records) THEN records[k] ELSE Rec(0, 0)]

\* A mutant: the copy loses the flags.
CopySizesOnly(dst, src) ==
    [k \in 1 .. Len(dst) |->
        IF k <= Len(src) THEN Rec(src[k].sizeInBytes, 0) ELSE dst[k]]

\* for (i < records.size()) { t->records[i].sizeInBytes = ...; .flags = ...; }
CopyRecords(dst, src) ==
    [k \in 1 .. Len(dst) |->
        IF k <= Len(src)
        THEN [dst[k] EXCEPT !.sizeInBytes = src[k].sizeInBytes,
                            !.flags = src[k].flags]
        ELSE dst[k]]

\* What a provider may answer to getMemory: ok is status.isOk() (modern) or
\* ret.isOk() (legacy); cb says whether the legacy completion callback ran,
\* which it does whenever the transport succeeded; status and records are
\* what the callback received, or what the modern call left in its out
\* parameter.
Replies ==
    [ok : BOOLEAN, cb : {TRUE},
     status : {"SUCCESS", "TYPE_NOT_SUPPORTED"}, records : HalLists]
    \cup { [ok |-> FALSE, cb |-> FALSE, status |-> "SUCCESS",
            records |-> << >>] }

\* A mutant: the modern path stores what the out parameter holds even when
\* the call failed.
get_type_aidl_keeps_partial(records, reply) ==
    [err |-> IF reply.ok THEN 0 ELSE -1,
     records |-> CopyRecords(Resize(records, Len(reply.records)),
                             reply.records)]

\* The modern path, lines 134-148.
get_type_aidl(records, reply) ==
    IF ~reply.ok
    THEN [err |-> -1, records |-> records]
    ELSE [err |-> 0,
          records |-> CopyRecords(Resize(records, Len(reply.records)),
                                  reply.records)]

\* The completion callback of the legacy path, lines 156-166.
hidl_callback(records, status, cbrecords) ==
    LET failed == status # "SUCCESS"
        r0 == IF failed THEN Resize(records, 0) ELSE records
    IN  [err |-> IF failed THEN -1 ELSE 0,
         records |-> CopyRecords(Resize(r0, Len(cbrecords)), cbrecords)]

\* A mutant: the legacy path returns what the callback set, whatever the
\* transport says.
get_type_hidl_ignores_transport(records, reply) ==
    IF reply.cb
    THEN hidl_callback(records, reply.status, reply.records)
    ELSE [err |-> 0, records |-> records]

\* The legacy path, lines 155-167.
get_type_hidl(records, reply) ==
    LET c == IF reply.cb
             THEN hidl_callback(records, reply.status, reply.records)
             ELSE [err |-> 0, records |-> records]
    IN  [err |-> IF reply.ok THEN c.err ELSE -1, records |-> c.records]

\* A mutant: the legacy handle is used without the test for nullptr.
get_type_resolve_unchecked(w, e) ==
    LET a == get_aidl_instance(w, e)
    IN  IF a.service # "nullptr"
        THEN [w |-> a.w, provider |-> "aidl"]
        ELSE [w |-> get_hidl_instance(a.w, e).w, provider |-> "hidl"]

\* A mutant: the legacy provider is tried first.
get_type_resolve_legacy_first(w, e) ==
    LET h == get_hidl_instance(w, e)
    IN  IF h.module # "nullptr"
        THEN [w |-> h.w, provider |-> "hidl"]
        ELSE LET a == get_aidl_instance(h.w, e)
             IN  [w |-> a.w, provider |-> a.service]

\* Lines 132-133 and 151-153: the provider memtrack_proc_get_type will ask,
\* "aidl", "hidl" or "nullptr" (neither: return -1).
get_type_resolve(w, e) ==
    LET a == get_aidl_instance(w, e)
    IN  IF a.service # "nullptr"
        THEN [w |-> a.w, provider |-> "aidl"]
        ELSE LET h == get_hidl_instance(a.w, e)
             IN  [w |-> h.w, provider |-> h.module]

\* Ghost: what the provider was asked and what it said.
Fetched(provider, type, reply, err) ==
    [provider |-> provider, type |-> type, err |-> err,
     reply |-> IF provider = "aidl"
               THEN [ok |-> reply.ok, records |-> reply.records]
               ELSE IF reply.cb THEN reply
                    ELSE [ok |-> FALSE, cb |-> FALSE]]

\* Lines 135-148 and 155-167: the getMemory call and what it stores.
get_type_call(records, provider, reply) ==
    IF provider = "aidl" THEN get_type_aidl(records, reply)
    ELSE get_type_hidl(records, reply)

\* A mutant: a record carrying SHARED and SHARED_PSS together fails the
\* check.
sanity_check_rejects_overlap(snapshot) ==
    IF \E t \in Types : \E j \in 1 .. Len(snapshot.types[t]) :
           BitAnd(snapshot.types[t][j].flags, SHARED + SHARED_PSS)
               = SHARED + SHARED_PSS
    THEN -1 ELSE 0

\* memtrack_proc_sanity_check: always passes.
memtrack_proc_sanity_check(snapshot) == 0

(***************************************************************************)
(* The sequential program: one caller at a time.                           *)
(***************************************************************************)
Init ==
    /\ glob = GlobInit
    /\ obs = ObsInit
    /\ p = memtrack_proc_new
    /\ pc = "idle"
    /\ i = 0
    /\ svc = "nullptr"
    /\ api = NoApi
    /\ ret = 0
    /\ calls = << >>
    /\ last = NoFetch
    /\ q = NoQuery
    /\ th = ThInit

\* memtrack_proc_new(): the caller takes a fresh snapshot.
ProcNew ==
    /\ pc \in {"idle", "done"}
    /\ p # memtrack_proc_new
    /\ p' = memtrack_proc_new
    /\ pc' = "idle"
    /\ api' = NoApi
    /\ ret' = 0
    /\ calls' = << >>
    /\ last' = NoFetch
    /\ UNCHANGED << glob, obs, i, svc, q, th >>

\* A mutant: the snapshot pointer is not tested.
proc_get_entry_unchecked(isnull, pid) == FALSE

\* A mutant: a negative pid is refused like a null snapshot.
proc_get_entry_checks_pid(isnull, pid) == isnull \/ pid < 0

\* if (!p) return -EINVAL;
proc_get_entry(isnull, pid) == isnull

\* memtrack_proc_get, lines 184-188: the entry check and p->pid = pid.
ProcGetBegin(isnull, pid) ==
    /\ pc \in {"idle", "done"}
    /\ api' = [fn |-> "memtrack_proc_get", isnull |-> isnull, pid |-> pid]
    /\ calls' = << >>
    /\ last' = NoFetch
    /\ IF proc_get_entry(isnull, pid)
       THEN /\ pc' = "done"
            /\ ret' = -EINVAL
            /\ UNCHANGED << p, i >>
       ELSE /\ pc' = "fetch"
            /\ ret' = 0
            /\ p' = [p EXCEPT !.pid = pid]
            /\ i' = 0
    /\ UNCHANGED << glob, obs, svc, q, th >>

\* A mutant: the loop goes on after a failed fetch.
loop_continues(r, idx) == idx + 1 < NUM_TYPES

\* if (ret != 0) return ret;  and the loop condition i < NUM_TYPES.
loop_goes_on(r, idx) == r = 0 /\ idx + 1 < NUM_TYPES

\* The end of one turn of the loop of memtrack_proc_get (lines 189-195)
\* with memtrack_proc_get_type having returned err: the next turn, or the
\* return after a failed fetch or after the last type.
LoopTurnEnds(err) ==
    IF loop_goes_on(err, i)
    THEN /\ i' = i + 1
         /\ pc' = "fetch"
         /\ UNCHANGED ret
    ELSE /\ pc' = "done"
         /\ ret' = IF err # 0 THEN err ELSE memtrack_proc_sanity_check(p')
         /\ UNCHANGED i

\* memtrack_proc_get_type(&p->types[i], pid, i), lines 132-153: the provider
\* is resolved; with none the fetch returns -1 at once.
ProcGetResolve(e) ==
    /\ pc = "fetch"
    /\ \E r \in {get_type_resolve([glob |-> glob, obs |-> obs], e)} :
           /\ glob' = r.w.glob
           /\ obs' = r.w.obs
           /\ svc' = r.provider
           /\ IF r.provider = "nullptr"
              THEN /\ UNCHANGED << p, calls >>
                   /\ last' = [provider |-> "absent", type |-> i, err |-> -1]
                   /\ LoopTurnEnds(-1)
              ELSE /\ pc' = "getMemory"
                   /\ UNCHANGED << p, i, ret, calls, last >>
    /\ UNCHANGED << api, q, th >>

\* A mutant: the loop asks for the types from the last to the first.
type_of_turn_descending(idx) == NUM_TYPES - 1 - idx

\* (MemtrackType)i: the type the turn idx of the loop asks the provider for.
type_of_turn(idx) == idx

\* memtrack_proc_get_type, lines 135-148 and 155-167: the provider answers
\* getMemory and the records are stored; then the loop turn ends.
ProcGetMemory(reply) ==
    /\ pc = "getMemory"
    /\ TotalRecords(p.types, Types \ {i}) + Len(reply.records) <= MaxTotal
    /\ \E r \in {get_type_call(p.types[i], svc, reply)} :
           /\ p' = [p EXCEPT !.types[i] = r.records]
           /\ calls' = Append(calls, [provider |-> svc, fn |-> "getMemory",
                                      pid |-> p.pid,
                                      type |-> type_of_turn(i),
                                      err |-> r.err])
           /\ last' = Fetched(svc, i, reply, r.err)
           /\ obs' = [obs EXCEPT !.providers = @ \cup {svc}]
           /\ LoopTurnEnds(r.err)
    /\ UNCHANGED << glob, svc, api, q, th >>

\* A mutant: memtrack_gpu_device_info falls back to the legacy provider.
gpu_device_info_fallback(w, e) ==
    LET r == get_type_resolve(w, e)
    IN  [w |-> r.w, service |-> r.provider]

\* std::shared_ptr<V_aidl::IMemtrack> service = get_aidl_instance();
gpu_device_info_service(w, e) == get_aidl_instance(w, e)

\* memtrack_gpu_device_info, lines 107-115.
GpuDeviceInfo(e, ok) ==
    /\ pc \in {"idle", "done"}
    /\ \E a \in {gpu_device_info_service([glob |-> glob, obs |-> obs], e)} :
           /\ glob' = a.w.glob
           /\ IF a.service = "nullptr"
              THEN /\ ret' = 0
                   /\ calls' = << >>
                   /\ obs' = a.w.obs
              ELSE /\ ret' = IF ok THEN 1 ELSE 0
                   /\ calls' = << [provider |-> a.service,
                                   fn |-> "getGpuDeviceInfo", ok |-> ok] >>
                   /\ obs' = [a.w.obs EXCEPT !.providers = @ \cup {a.service}]
    /\ api' = [fn |-> "memtrack_gpu_device_info"]
    /\ pc' = "done"
    /\ last' = NoFetch
    /\ UNCHANGED << p, i, svc, q, th >>

Pids == {-1, 1}

Next ==
    \/ ProcNew
    \/ \E isnull \in BOOLEAN, pid \in Pids : ProcGetBegin(isnull, pid)
    \/ \E e \in Envs : ProcGetResolve(e)
    \/ \E reply \in Replies : ProcGetMemory(reply)
    \/ \E e \in Envs, ok \in BOOLEAN : GpuDeviceInfo(e, ok)

Spec == Init /\ [][Next]_vars

(***************************************************************************)
(* The aggregation alone: a snapshot as a populate may leave it, and the   *)
(* queries applied to it.                                                  *)
(***************************************************************************)
\* Most records of a snapshot the queries are applied to.
MaxSumTotal == 3

\* The records of those snapshots.
SumRecordsDomain ==
    { Rec(100, SMAPS_ACCOUNTED),
      Rec(50, SHARED_PSS + SMAPS_UNACCOUNTED),
      Rec(10, 0) }

\* The sequences of k record lists holding at most budget records together.
RECURSIVE ListsWithin(_, _)
ListsWithin(k, budget) ==
    IF k = 0 THEN { << >> }
    ELSE UNION { { Append(s, l) : s \in ListsWithin(k - 1, budget - Len(l)) } :
                 l \in SeqsUpTo(SumRecordsDomain, budget) }

SumSnapshots ==
    { [pid |-> 1, types |-> [t \in Types |-> s[t + 1]]] :
      s \in ListsWithin(NUM_TYPES, MaxSumTotal) }

\* The type vectors handed to memtrack_proc_sum: every non-empty set of types
\* in enumeration order, and the order the "other" queries use.
RECURSIVE Ascending(_)
Ascending(T) ==
    IF T = {} THEN << >>
    ELSE LET m == CHOOSE x \in T : \A y \in T : x <= y
         IN  << m >> \o Ascending(T \ {m})

TypeVectors ==
    { Ascending(T) : T \in (SUBSET Types) \ {{}} }
    \cup { << TYPE_MULTIMEDIA, TYPE_CAMERA, TYPE_OTHER >> }

\* The masks handed to memtrack_proc_sum.
Masks == { 0, SMAPS_UNACCOUNTED, SMAPS_ACCOUNTED + SMAPS_UNACCOUNTED }

InitSum ==
    /\ p \in SumSnapshots
    /\ glob = GlobInit
    /\ obs = ObsInit
    /\ pc = "done"
    /\ i = 0
    /\ svc = "nullptr"
    /\ api = NoApi
    /\ ret = 0
    /\ calls = << >>
    /\ last = NoFetch
    /\ q = NoQuery
    /\ th = ThInit

QueryFrame == UNCHANGED << glob, obs, p, pc, i, svc, api, ret, calls, last, th >>

\* The caller takes the answer; the next query is called after that.
TakeAnswer ==
    /\ q # NoQuery
    /\ q' = NoQuery
    /\ QueryFrame

ProcSum(types, flags) ==
    /\ q = NoQuery
    /\ q' = [fn |-> "memtrack_proc_sum", types |-> types, flags |-> flags,
             result |-> memtrack_proc_sum(p.types, types, flags)]
    /\ QueryFrame

GraphicsTotal ==
    /\ q = NoQuery
    /\ q' = [fn |-> "memtrack_proc_graphics_total",
             result |-> memtrack_proc_graphics_total(p.types)]
    /\ QueryFrame

GraphicsPss ==
    /\ q = NoQuery
    /\ q' = [fn |-> "memtrack_proc_graphics_pss",
             result |-> memtrack_proc_graphics_pss(p.types)]
    /\ QueryFrame

GlTotal ==
    /\ q = NoQuery
    /\ q' = [fn |-> "memtrack_proc_gl_total",
             result |-> memtrack_proc_gl_total(p.types)]
    /\ QueryFrame

GlPss ==
    /\ q = NoQuery
    /\ q' = [fn |-> "memtrack_proc_gl_pss",
             result |-> memtrack_proc_gl_pss(p.types)]
    /\ QueryFrame

OtherTotal ==
    /\ q = NoQuery
    /\ q' = [fn |-> "memtrack_proc_other_total",
             result |-> memtrack_proc_other_total(p.types)]
    /\ QueryFrame

OtherPss ==
    /\ q = NoQuery
    /\ q' = [fn |-> "memtrack_proc_other_pss",
             result |-> memtrack_proc_other_pss(p.types)]
    /\ QueryFrame

\* A caller asks the six category queries of one snapshot, one after the
\* other, and keeps the six answers.
AllCategories ==
    /\ q = NoQuery
    /\ q' = [fn |-> "categories",
             graphics_total |-> memtrack_proc_graphics_total(p.types),
             graphics_pss |-> memtrack_proc_graphics_pss(p.types),
             gl_total |-> memtrack_proc_gl_total(p.types),
             gl_pss |-> memtrack_proc_gl_pss(p.types),
             other_total |-> memtrack_proc_other_total(p.types),
             other_pss |-> memtrack_proc_other_pss(p.types)]
    /\ QueryFrame

NextSum ==
    \/ \E types \in TypeVectors, flags \in Masks : ProcSum(types, flags)
    \/ GraphicsTotal
    \/ GraphicsPss
    \/ GlTotal
    \/ GlPss
    \/ OtherTotal
    \/ OtherPss
    \/ AllCategories
    \/ TakeAnswer

SpecSum == InitSum /\ [][NextSum]_vars

(***************************************************************************)
(* What the aggregation is to return, stated over the set of the selected  *)
(* records and the set of the bits of a mask.                              *)
(***************************************************************************)
\* The flag bits set in n (MemtrackFlag uses bits 1 to 9).
BitsOf(n) == { k \in 0 .. 11 : (n \div (2 ^ k)) % 2 = 1 }

\* The places <<type, index>> of the records of the types in T that carry
\* every bit of mask.
Selected(ptypes, T, mask) ==
    { pl \in UNION { { << t, j >> : j \in 1 .. Len(ptypes[t]) } : t \in T } :
        BitsOf(mask) \subseteq BitsOf(ptypes[pl[1]][pl[2]].flags) }

RECURSIVE SizeOver(_, _)
SizeOver(ptypes, places) ==
    IF places = {} THEN 0
    ELSE LET pl == CHOOSE x \in places : TRUE
         IN  ptypes[pl[1]][pl[2]].sizeInBytes
             + SizeOver(ptypes, places \ {pl})

Range(f) == { f[k] : k \in DOMAIN f }

\* C1: memtrack_proc_sum returns the sum of sizeInBytes over exactly the
\* records of the selected types whose flags carry every bit of the mask; a
\* record lacking a bit of the mask is left out even if it shares others,
\* and with mask 0 every record of the selected types counts exactly once.
C1_SumIsMaskContainment ==
    q.fn = "memtrack_proc_sum" =>
        /\ q.result = SizeOver(p.types, Selected(p.types, Range(q.types), q.flags))
        /\ q.flags = 0 =>
             q.result = SizeOver(p.types,
                 UNION { { << t, j >> : j \in 1 .. Len(p.types[t]) } :
                         t \in Range(q.types) })

\* A query whose mask one selected record carries in full and another
\* selected record only shares a bit of.
C1_Witness ==
    /\ q.fn = "memtrack_proc_sum"
    /\ q.flags = SMAPS_ACCOUNTED + SMAPS_UNACCOUNTED
    /\ q.types = << TYPE_GL, TYPE_GRAPHICS >>
    /\ p.types[TYPE_GL] = << Rec(100, SMAPS_ACCOUNTED) >>
    /\ p.types[TYPE_GRAPHICS] =
           << Rec(50, SHARED_PSS + SMAPS_UNACCOUNTED), Rec(10, 0) >>
    /\ q.result = 0

\* The sum of all records of the types in T, and of those that carry
\* SMAPS_UNACCOUNTED (bit 2).
TotalOf(ptypes, T) ==
    SizeOver(ptypes, UNION { { << t, j >> : j \in 1 .. Len(ptypes[t]) } : t \in T })

PssOf(ptypes, T) ==
    SizeOver(ptypes,
        { pl \in UNION { { << t, j >> : j \in 1 .. Len(ptypes[t]) } : t \in T } :
            2 \in BitsOf(ptypes[pl[1]][pl[2]].flags) })

\* C2: graphics_total and gl_total are the sums of all records of GRAPHICS
\* resp. GL, other_total the sum of all records of MULTIMEDIA, CAMERA and
\* OTHER, and each pss query the sum of the records of the same types that
\* carry SMAPS_UNACCOUNTED; no other type contributes.
C2_CategoryQueries ==
    /\ q.fn = "memtrack_proc_graphics_total" =>
           q.result = TotalOf(p.types, {TYPE_GRAPHICS})
    /\ q.fn = "memtrack_proc_graphics_pss" =>
           q.result = PssOf(p.types, {TYPE_GRAPHICS})
    /\ q.fn = "memtrack_proc_gl_total" =>
           q.result = TotalOf(p.types, {TYPE_GL})
    /\ q.fn = "memtrack_proc_gl_pss" =>
           q.result = PssOf(p.types, {TYPE_GL})
    /\ q.fn = "memtrack_proc_other_total" =>
           q.result = TotalOf(p.types, {TYPE_MULTIMEDIA, TYPE_CAMERA, TYPE_OTHER})
    /\ q.fn = "memtrack_proc_other_pss" =>
           q.result = PssOf(p.types, {TYPE_MULTIMEDIA, TYPE_CAMERA, TYPE_OTHER})
    /\ ( /\ q.fn = "memtrack_proc_graphics_total"
         /\ p.types[TYPE_GRAPHICS] =
                << Rec(100, SMAPS_ACCOUNTED),
                   Rec(50, SHARED_PSS + SMAPS_UNACCOUNTED) >> )
         => q.result = 150
    /\ ( /\ q.fn = "memtrack_proc_graphics_pss"
         /\ p.types[TYPE_GRAPHICS] =
                << Rec(100, SMAPS_ACCOUNTED),
                   Rec(50, SHARED_PSS + SMAPS_UNACCOUNTED) >> )
         => q.result = 50

\* One flagless record of size 10 in each of OTHER, MULTIMEDIA and CAMERA:
\* other_total has answered 30.
C2_Witness ==
    /\ q.fn = "memtrack_proc_other_total"
    /\ \A t \in {TYPE_OTHER, TYPE_MULTIMEDIA, TYPE_CAMERA} :
           p.types[t] = << Rec(10, 0) >>
    /\ q.result = 30

\* The sum, over the types of T, of memtrack_proc_sum asked for that type
\* alone.
RECURSIVE SingleSums(_, _, _)
SingleSums(ptypes, T, flags) ==
    IF T = {} THEN 0
    ELSE LET t == CHOOSE x \in T : TRUE
         IN  memtrack_proc_sum(ptypes, << t >>, flags)
             + SingleSums(ptypes, T \ {t}, flags)

\* C14: memtrack_proc_sum over a vector of distinct types with a mask returns
\* the sum, over the types of the vector, of what memtrack_proc_sum returns
\* for that single type with the same mask.
C14_SumAdditiveAcrossTypes ==
    ( /\ q.fn = "memtrack_proc_sum"
      /\ Cardinality(Range(q.types)) = Len(q.types) )
    => q.result = SingleSums(p.types, Range(q.types), q.flags)

\* A sum over two types with the mask SMAPS_UNACCOUNTED, each type holding a
\* record that counts, one of them also a record that does not.
C14_Witness ==
    /\ q.fn = "memtrack_proc_sum"
    /\ q.types = << TYPE_OTHER, TYPE_CAMERA >>
    /\ q.flags = SMAPS_UNACCOUNTED
    /\ p.types[TYPE_OTHER] = << Rec(50, SHARED_PSS + SMAPS_UNACCOUNTED) >>
    /\ p.types[TYPE_CAMERA] =
           << Rec(50, SHARED_PSS + SMAPS_UNACCOUNTED), Rec(10, 0) >>
    /\ q.result = 100

\* C19: the three categories split the five types: for every snapshot the
\* graphics, GL and other totals add up to the sum of sizeInBytes of all
\* records of all types, each record counted once, and in each category the
\* pss answer is at most the total answer (sizes are non-negative and the
\* sums stay within ssize_t).
C19_CategoriesPartitionTypes ==
    q.fn = "categories" =>
        /\ q.graphics_total + q.gl_total + q.other_total
               = SizeOver(p.types,
                     UNION { { << t, j >> : j \in 1 .. Len(p.types[t]) } :
                             t \in Types })
        /\ 0 <= q.graphics_pss /\ q.graphics_pss <= q.graphics_total
        /\ 0 <= q.gl_pss /\ q.gl_pss <= q.gl_total
        /\ 0 <= q.other_pss /\ q.other_pss <= q.other_total

\* The six answers for a snapshot with one record in each category: an
\* unaccounted one in GRAPHICS, an accounted one in GL, a flagless one in
\* CAMERA.
C19_Witness ==
    /\ q.fn = "categories"
    /\ p.types[TYPE_GRAPHICS] = << Rec(50, SHARED_PSS + SMAPS_UNACCOUNTED) >>
    /\ p.types[TYPE_GL] = << Rec(100, SMAPS_ACCOUNTED) >>
    /\ p.types[TYPE_CAMERA] = << Rec(10, 0) >>
    /\ q.graphics_total = 50 /\ q.graphics_pss = 50
    /\ q.gl_total = 100 /\ q.gl_pss = 0
    /\ q.other_total = 10 /\ q.other_pss = 0

(***************************************************************************)
(* Claims about memtrack_proc_get and the resolution, under Spec.          *)
(***************************************************************************)
InProcGet == api.fn = "memtrack_proc_get"

\* C3: as soon as the fetch of one type fails, memtrack_proc_get returns that
\* error at once and asks the provider for no later type; a record list
\* changes only in the fetch of its own type (or when the caller takes a
\* fresh snapshot), so the lists of the later types are as before the call.
C3_FailFast ==
    /\ [](last.provider # "none" /\ last.err # 0 =>
            /\ pc = "done"
            /\ ret = last.err
            /\ i = last.type
            /\ \A k \in 1 .. Len(calls) : calls[k].type <= last.type)
    /\ [][\A t \in Types :
            p'.types[t] # p.types[t] =>
                \/ pc = "getMemory" /\ t = i
                \/ pc \in {"idle", "done"} /\ p' = memtrack_proc_new]_vars

\* A populate that failed before the last type, on a snapshot whose later
\* types held records from an earlier populate.
C3_Witness ==
    /\ InProcGet
    /\ pc = "done"
    /\ ret = -1
    /\ last.provider \in {"aidl", "hidl"}
    /\ last.type = TYPE_GL
    /\ p.types[TYPE_CAMERA] # << >>

\* C4: when the legacy completion callback reports a non-success status, the
\* record list stored for that type is empty after the fetch, whatever the
\* callback carried, and the fetch reports an error.
C4_FailedCallbackDiscards ==
    ( /\ last.provider = "hidl"
      /\ last.reply.cb
      /\ last.reply.status # "SUCCESS" )
    => /\ p.types[last.type] = << >>
       /\ last.err # 0

\* C5, as claimed: memtrack_proc_get with a negative pid reports the
\* invalid-argument error before any fetch is issued.
C5_NegativePidRefused ==
    (InProcGet /\ api.pid < 0) =>
        /\ pc = "done"
        /\ ret = -EINVAL
        /\ calls = << >>

\* C5, amended: memtrack_proc_get reports the invalid-argument error exactly
\* for a null snapshot; a negative pid with a valid snapshot is stored in the
\* snapshot and handed to the provider in every fetch like any other pid.
C5_OnlyNullIsInvalid ==
    InProcGet =>
        /\ (pc = "done" /\ ret = -EINVAL) <=> api.isnull
        /\ ~api.isnull =>
             /\ p.pid = api.pid
             /\ \A k \in 1 .. Len(calls) : calls[k].pid = api.pid

\* A populate with a negative pid that fetched all five types and succeeded.
C5_Witness ==
    /\ InProcGet
    /\ api.pid < 0
    /\ ~api.isnull
    /\ pc = "done"
    /\ ret = 0
    /\ Len(calls) = NUM_TYPES

\* The modern provider yields a handle: declared and connected.
ModernResolved ==
    /\ glob.declared_guard = "done"
    /\ glob.declared
    /\ glob.binder_guard = "done"
    /\ glob.memtrack_binder # "nullptr"

\* The modern provider is known to yield none: not declared, or declared and
\* the connection gave no binder.
ModernAbsent ==
    /\ glob.declared_guard = "done"
    /\ \/ ~glob.declared
       \/ glob.binder_guard = "done" /\ glob.memtrack_binder = "nullptr"

LegacyConsulted ==
    \/ obs.n_hidl > 0
    \/ obs.n_getService > 0
    \/ glob.module_guard # "uninit"
    \/ "hidl" \in obs.providers

\* C6, as claimed: where the modern provider is declared, the legacy provider
\* is never located or called and every fetch goes to the modern provider.
C6_DeclaredMeansModernOnly ==
    (glob.declared_guard = "done" /\ glob.declared) =>
        /\ ~LegacyConsulted
        /\ \A k \in 1 .. Len(calls) : calls[k].provider = "aidl"

\* C6, amended: the legacy provider is located or called only when the modern
\* provider yields no handle (it is not declared, or it is declared and the
\* connection gave no binder); where the modern handle was obtained every
\* fetch goes to the modern provider; and all fetches of a process are
\* answered by one and the same provider.
C6_LegacyOnlyWithoutModern ==
    /\ LegacyConsulted => ModernAbsent
    /\ ModernResolved =>
         /\ ~LegacyConsulted
         /\ \A k \in 1 .. Len(calls) : calls[k].provider = "aidl"
    /\ Cardinality(obs.providers) <= 1
    /\ \A k \in 1 .. Len(calls) : calls[k].provider \in obs.providers

\* The modern provider is declared, its connection gave no binder, and a
\* populate was answered in full by the legacy provider.
C6_Witness ==
    /\ glob.declared
    /\ glob.binder_guard = "done"
    /\ glob.memtrack_binder = "nullptr"
    /\ InProcGet
    /\ pc = "done"
    /\ ret = 0
    /\ obs.providers = {"hidl"}

\* C7: over any sequence of resolutions the declaration check, the modern
\* connection and the legacy discovery are each performed at most once, and
\* every resolution returns what the first returned, whatever the environment
\* would answer by then.
C7_ResolutionMemoized ==
    /\ obs.n_isDeclared <= 1
    /\ obs.n_waitForService <= 1
    /\ obs.n_getService <= 1
    /\ obs.last_aidl = obs.first_aidl
    /\ obs.last_hidl = obs.first_hidl

\* Two resolutions or more, the later one handing out the cached modern
\* handle although the environment of that call would answer otherwise.
C7_Witness ==
    /\ obs.n_aidl >= 2
    /\ obs.n_isDeclared = 1
    /\ obs.n_waitForService = 1
    /\ obs.first_aidl = "aidl"
    /\ obs.stale

\* C9: with neither provider available the "unavailable" diagnostic is
\* emitted exactly once, by the first resolution that reaches the legacy
\* lookup, and never again.
C9_UnavailableLoggedOnce ==
    /\ obs.n_ALOGE <= 1
    /\ (obs.n_hidl >= 1 /\ glob.module = "nullptr") <=> obs.n_ALOGE = 1
    /\ glob.logged <=> obs.n_ALOGE = 1

\* Two failed resolutions or more that reached the legacy lookup, one
\* diagnostic.
C9_Witness ==
    /\ obs.n_hidl >= 2
    /\ obs.first_aidl = "nullptr"
    /\ glob.module = "nullptr"
    /\ obs.n_ALOGE = 1

\* C10: after a successful fetch the list stored for the type equals the list
\* the provider handed over, record for record, size and flags, in the same
\* order and number, whichever provider answered.
C10_RecordsStoredAsReturned ==
    (last.provider \in {"aidl", "hidl"} /\ last.err = 0) =>
        p.types[last.type] = last.reply.records

\* A successful legacy fetch of two different records.
C10_Witness ==
    /\ last.provider = "hidl"
    /\ last.err = 0
    /\ Len(last.reply.records) = 2
    /\ last.reply.records[1] # last.reply.records[2]
    /\ p.types[last.type] = last.reply.records

\* C11: when the getMemory call of the modern provider fails, the fetch
\* reports an error, memtrack_proc_get returns it, and the step of the failed
\* call leaves every record list of the snapshot as it was, whatever the out
\* parameter of the call held.
C11_FailedModernFetchStoresNothing ==
    /\ []((last.provider = "aidl" /\ ~last.reply.ok) =>
            /\ last.err = -1
            /\ pc = "done"
            /\ ret = -1)
    /\ [][(pc = "getMemory" /\ svc = "aidl" /\ calls' # calls
            /\ ~last'.reply.ok) =>
                /\ last'.err = -1
                /\ p' = p]_vars

\* A failed modern call whose out parameter held a record, on a type whose
\* list holds another record from an earlier populate.
C11_Witness ==
    /\ last.provider = "aidl"
    /\ ~last.reply.ok
    /\ last.err = -1
    /\ last.reply.records # << >>
    /\ p.types[last.type] # << >>
    /\ p.types[last.type] # last.reply.records

\* Neither provider yields a handle, and both lookups have been made.
NoProvider ==
    /\ ModernAbsent
    /\ glob.module_guard = "done"
    /\ glob.module = "nullptr"

\* C12: with neither provider resolvable a fetch reports an error and no
\* getMemory call is issued: memtrack_proc_get on a valid snapshot ends at its
\* first type, OTHER, with the error of that fetch and an empty log of
\* provider calls, and no provider has ever been called.
C12_NoProviderNoCall ==
    /\ last.provider = "absent" =>
         /\ NoProvider
         /\ last.err = -1
         /\ last.type = TYPE_OTHER
    /\ (NoProvider /\ InProcGet /\ ~api.isnull) =>
         /\ calls = << >>
         /\ i = 0
         /\ obs.providers = {}
         /\ \/ pc = "fetch" /\ last.provider = "none"
            \/ pc = "done" /\ ret = -1 /\ last.provider = "absent"

\* A populate that ended at its first type because neither lookup gave a
\* handle.
C12_Witness ==
    /\ InProcGet
    /\ ~api.isnull
    /\ pc = "done"
    /\ ret = -1
    /\ last.provider = "absent"
    /\ obs.n_getService = 1
    /\ calls = << >>

InGpuDeviceInfo == api.fn = "memtrack_gpu_device_info"

\* C13: memtrack_gpu_device_info asks the modern provider alone.  Its step
\* makes one resolution of the modern provider and none of the legacy one,
\* leaves the legacy handle, its guard and the diagnostic untouched, and
\* calls no provider but the modern one; it returns true exactly when one
\* getGpuDeviceInfo call was made and succeeded, and false both when no
\* modern handle was obtained (no call is made) and when the call failed.
C13_GpuInfoModernOnly ==
    /\ [](InGpuDeviceInfo =>
            /\ pc = "done"
            /\ ret \in {0, 1}
            /\ Len(calls) <= 1
            /\ calls = << >> <=> obs.last_aidl = "nullptr"
            /\ \A k \in 1 .. Len(calls) :
                   /\ calls[k].provider = "aidl"
                   /\ calls[k].fn = "getGpuDeviceInfo"
            /\ ret = 1 <=> (calls # << >> /\ calls[1].ok))
    /\ [][api'.fn = "memtrack_gpu_device_info" =>
            /\ obs'.n_aidl = Inc(obs.n_aidl)
            /\ obs'.n_hidl = obs.n_hidl
            /\ obs'.n_getService = obs.n_getService
            /\ obs'.n_ALOGE = obs.n_ALOGE
            /\ glob'.module_guard = glob.module_guard
            /\ glob'.module = glob.module
            /\ glob'.logged = glob.logged
            /\ obs'.providers \subseteq obs.providers \cup {"aidl"}]_vars

\* memtrack_gpu_device_info has returned false for want of a modern handle,
\* and the legacy provider has never been looked up.
C13_Witness ==
    /\ InGpuDeviceInfo
    /\ ret = 0
    /\ calls = << >>
    /\ obs.last_aidl = "nullptr"
    /\ glob.module_guard = "uninit"
    /\ obs.n_hidl = 0

\* C15: memtrack_proc_get called with a null snapshot returns -EINVAL at
\* once: the step of the call resolves no provider (the statics, their
\* guards and the counts of lookups stay as they were), leaves the snapshot
\* of the caller alone, and the call issues no fetch.
C15_NullSnapshotRefusedAtOnce ==
    /\ []((InProcGet /\ api.isnull) =>
            /\ pc = "done"
            /\ ret = -EINVAL
            /\ calls = << >>
            /\ last = NoFetch)
    /\ [][(api'.fn = "memtrack_proc_get" /\ api'.isnull) =>
            /\ glob' = glob
            /\ obs' = obs
            /\ p' = p
            /\ svc' = svc]_vars

\* memtrack_proc_get(NULL, pid) has returned -EINVAL in a process that has
\* made no lookup at all.
C15_Witness ==
    /\ InProcGet
    /\ api.isnull
    /\ pc = "done"
    /\ ret = -EINVAL
    /\ glob = GlobInit
    /\ obs = ObsInit
    /\ calls = << >>

\* The order in which memtrack_proc_get asks for the types.
FetchOrder ==
    << TYPE_OTHER, TYPE_GL, TYPE_GRAPHICS, TYPE_MULTIMEDIA, TYPE_CAMERA >>

\* C16: one memtrack_proc_get asks the provider for OTHER, GL, GRAPHICS,
\* MULTIMEDIA, CAMERA in this order, each type at most once; a getMemory call
\* is issued only while the caller is in the fetch of that turn, all earlier
\* fetches having returned, and its step changes the record list of the type
\* asked for and no other, storing there what a successful call returned.
C16_FetchesInOrderOneAtATime ==
    /\ []((InProcGet /\ ~api.isnull) =>
            /\ Len(calls) <= NUM_TYPES
            /\ \A k \in 1 .. Len(calls) :
                   /\ calls[k].fn = "getMemory"
                   /\ calls[k].type = FetchOrder[k]
            /\ pc \in {"fetch", "getMemory"} => Len(calls) = i
            /\ (pc = "done" /\ calls # << >>) => Len(calls) = i + 1)
    /\ [][(api'.fn = "memtrack_proc_get" /\ Len(calls') > Len(calls)) =>
            /\ pc = "getMemory"
            /\ pc' \in {"fetch", "done"}
            /\ Len(calls') = Len(calls) + 1
            /\ LET t == calls'[Len(calls')].type
               IN  /\ t = FetchOrder[Len(calls')]
                   /\ last'.type = t
                   /\ \A u \in Types \ {t} : p'.types[u] = p.types[u]
                   /\ last'.err = 0 => p'.types[t] = last'.reply.records]_vars

\* A populate that fetched all five types, GL and CAMERA having been given
\* different non-empty lists.
C16_Witness ==
    /\ InProcGet
    /\ pc = "done"
    /\ ret = 0
    /\ Len(calls) = NUM_TYPES
    /\ calls[2].type = TYPE_GL
    /\ calls[NUM_TYPES].type = TYPE_CAMERA
    /\ p.types[TYPE_GL] # << >>
    /\ p.types[TYPE_CAMERA] # << >>
    /\ p.types[TYPE_GL] # p.types[TYPE_CAMERA]

\* C17: memtrack_proc_get returns 0 exactly when it was given a snapshot and
\* the fetch of each of the five types returned 0; the records fetched,
\* whatever their flags, never turn such a call into a failure.
C17_SuccessIffAllFetchesSucceed ==
    (InProcGet /\ pc = "done") =>
        ( ret = 0 <=>
            /\ ~api.isnull
            /\ Len(calls) = NUM_TYPES
            /\ \A k \in 1 .. Len(calls) : calls[k].err = 0 )

\* A populate that succeeded and left in the snapshot a record that carries
\* SHARED, SHARED_PSS and an undefined bit and neither SMAPS_ACCOUNTED nor
\* SMAPS_UNACCOUNTED.
C17_Witness ==
    /\ InProcGet
    /\ pc = "done"
    /\ ret = 0
    /\ Len(calls) = NUM_TYPES
    /\ \A k \in 1 .. Len(calls) : calls[k].err = 0
    /\ \E t \in Types : \E j \in 1 .. Len(p.types[t]) :
           /\ BitAnd(p.types[t][j].flags, SHARED + SHARED_PSS)
                  = SHARED + SHARED_PSS
           /\ BitAnd(p.types[t][j].flags,
                     SMAPS_ACCOUNTED + SMAPS_UNACCOUNTED) = 0
           /\ p.types[t][j].flags > 2 ^ 10

\* C18: a fetch through the legacy provider returns 0 exactly when the
\* transport succeeded and the callback received the status SUCCESS, and -1
\* otherwise: after a failed transport whatever the callback received, and
\* after a status other than SUCCESS even though the transport succeeded.
C18_LegacySuccessNeedsBoth ==
    last.provider = "hidl" =>
        /\ last.err \in {0, -1}
        /\ last.err = 0 <=>
              ( /\ last.reply.ok
                /\ last.reply.cb
                /\ last.reply.status = "SUCCESS" )

\* A legacy fetch whose callback received SUCCESS with a record and whose
\* transport failed: the fetch returned -1.
C18_Witness ==
    /\ last.provider = "hidl"
    /\ ~last.reply.ok
    /\ last.reply.cb
    /\ last.reply.status = "SUCCESS"
    /\ last.reply.records # << >>
    /\ last.err = -1

(***************************************************************************)
(* The resolution under concurrent callers.  Each caller runs lines        *)
(* 132-133 and 151 of memtrack_proc_get_type: get_aidl_instance and, with  *)
(* no modern handle, get_hidl_instance.  A dynamically initialised local   *)
(* static is guarded: the first caller to arrive runs the initialiser, a   *)
(* caller arriving meanwhile waits, later callers skip it.  The flag       *)
(* logged is constant-initialised and read and written with no guard.      *)
(***************************************************************************)
\* A mutant: no caller waits for a running initialiser.
guard_enter_racy(guard) ==
    IF guard = "done" THEN "skip" ELSE "init"

\* What a caller arriving at a guarded static does.
guard_enter(guard) ==
    CASE guard = "uninit" -> "init"
      [] guard = "busy" -> "wait"
      [] guard = "done" -> "skip"

ThreadFrame == UNCHANGED << p, pc, i, svc, api, ret, calls, last, q >>

\* A caller enters get_aidl_instance.
TCall(t) ==
    /\ th[t].pc = "idle"
    /\ th' = [th EXCEPT ![t] = [pc |-> "declared", service |-> "unset",
                                module |-> "unset"]]
    /\ UNCHANGED << glob, obs >>
    /\ ThreadFrame

\* Line 98, the guard of static bool declared.
TDeclaredGuard(t) ==
    /\ th[t].pc = "declared"
    /\ guard_enter(glob.declared_guard) # "wait"
    /\ IF guard_enter(glob.declared_guard) = "init"
       THEN /\ glob' = [glob EXCEPT !.declared_guard = "busy"]
            /\ th' = [th EXCEPT ![t].pc = "isDeclared"]
       ELSE /\ th' = [th EXCEPT ![t].pc = "if_declared"]
            /\ UNCHANGED glob
    /\ UNCHANGED obs
    /\ ThreadFrame

\* Line 98, the initialiser: AServiceManager_isDeclared.
TIsDeclared(t, e) ==
    /\ th[t].pc = "isDeclared"
    /\ glob' = [glob EXCEPT !.declared = e.isDeclared,
                            !.declared_guard = "done"]
    /\ obs' = [obs EXCEPT !.n_isDeclared = Inc(@)]
    /\ th' = [th EXCEPT ![t].pc = "if_declared"]
    /\ ThreadFrame

\* Lines 99-101: if (!declared) return nullptr, and the caller goes on to
\* get_hidl_instance.
TIfDeclared(t, e) ==
    /\ th[t].pc = "if_declared"
    /\ IF ~glob.declared
       THEN /\ th' = [th EXCEPT ![t].pc = "module", ![t].service = "nullptr"]
            /\ obs' = NoteAidl([glob |-> glob, obs |-> obs], "nullptr", e).obs
       ELSE /\ th' = [th EXCEPT ![t].pc = "binder"]
            /\ UNCHANGED obs
    /\ UNCHANGED glob
    /\ ThreadFrame

\* Line 102, the guard of static memtrack_binder.
TBinderGuard(t) ==
    /\ th[t].pc = "binder"
    /\ guard_enter(glob.binder_guard) # "wait"
    /\ IF guard_enter(glob.binder_guard) = "init"
       THEN /\ glob' = [glob EXCEPT !.binder_guard = "busy"]
            /\ th' = [th EXCEPT ![t].pc = "waitForService"]
       ELSE /\ th' = [th EXCEPT ![t].pc = "fromBinder"]
            /\ UNCHANGED glob
    /\ UNCHANGED obs
    /\ ThreadFrame

\* Lines 102-103, the initialiser: AServiceManager_waitForService.
TWaitForService(t, e) ==
    /\ th[t].pc = "waitForService"
    /\ glob' = [glob EXCEPT !.memtrack_binder =
                                IF e.aidlService THEN "binder" ELSE "nullptr",
                            !.binder_guard = "done"]
    /\ obs' = [obs EXCEPT !.n_waitForService = Inc(@)]
    /\ th' = [th EXCEPT ![t].pc = "fromBinder"]
    /\ ThreadFrame

\* Line 104 and line 133: the handle is returned; with one the caller is
\* done, with none it goes on to get_hidl_instance.
TFromBinder(t, e) ==
    /\ th[t].pc = "fromBinder"
    /\ th' = [th EXCEPT ![t].service = fromBinder(glob.memtrack_binder),
                        ![t].pc = IF fromBinder(glob.memtrack_binder) = "nullptr"
                                  THEN "module" ELSE "idle"]
    /\ obs' = NoteAidl([glob |-> glob, obs |-> obs],
                       fromBinder(glob.memtrack_binder), e).obs
    /\ UNCHANGED glob
    /\ ThreadFrame

\* Line 87, the guard of static module.
TModuleGuard(t) ==
    /\ th[t].pc = "module"
    /\ guard_enter(glob.module_guard) # "wait"
    /\ IF guard_enter(glob.module_guard) = "init"
       THEN /\ glob' = [glob EXCEPT !.module_guard = "busy"]
            /\ th' = [th EXCEPT ![t].pc = "getService"]
       ELSE /\ th' = [th EXCEPT ![t].pc = "if_logged"]
            /\ UNCHANGED glob
    /\ UNCHANGED obs
    /\ ThreadFrame

\* Line 87, the initialiser: IMemtrack::getService.
TGetService(t, e) ==
    /\ th[t].pc = "getService"
    /\ glob' = [glob EXCEPT !.module =
                                IF e.hidlService THEN "hidl" ELSE "nullptr",
                            !.module_guard = "done"]
    /\ obs' = [obs EXCEPT !.n_getService = Inc(@)]
    /\ th' = [th EXCEPT ![t].pc = "if_logged"]
    /\ ThreadFrame

\* Line 89: the test module == nullptr && !logged.
TIfLogged(t) ==
    /\ th[t].pc = "if_logged"
    /\ th' = [th EXCEPT ![t].pc = IF glob.module = "nullptr" /\ ~glob.logged
                                  THEN "log" ELSE "return_module"]
    /\ UNCHANGED << glob, obs >>
    /\ ThreadFrame

\* Lines 90-91: logged = true; ALOGE(...).
TLog(t) ==
    /\ th[t].pc = "log"
    /\ glob' = [glob EXCEPT !.logged = TRUE]
    /\ obs' = [obs EXCEPT !.n_ALOGE = Inc(@)]
    /\ th' = [th EXCEPT ![t].pc = "return_module"]
    /\ ThreadFrame

\* Line 93: return module.
TReturnModule(t, e) ==
    /\ th[t].pc = "return_module"
    /\ th' = [th EXCEPT ![t].module = glob.module, ![t].pc = "idle"]
    /\ obs' = NoteHidl([glob |-> glob, obs |-> obs], glob.module, e).obs
    /\ UNCHANGED glob
    /\ ThreadFrame

NextConc ==
    \E t \in Threads :
        \/ TCall(t)
        \/ TDeclaredGuard(t)
        \/ \E e \in Envs : TIsDeclared(t, e)
        \/ \E e \in Envs : TIfDeclared(t, e)
        \/ TBinderGuard(t)
        \/ \E e \in Envs : TWaitForService(t, e)
        \/ \E e \in Envs : TFromBinder(t, e)
        \/ TModuleGuard(t)
        \/ \E e \in Envs : TGetService(t, e)
        \/ TIfLogged(t)
        \/ TLog(t)
        \/ \E e \in Envs : TReturnModule(t, e)

SpecConc == Init /\ [][NextConc]_vars

\* C8: with concurrent callers each discovery step (the declaration check,
\* the modern connection, the legacy lookup) is executed at most once, by one
\* caller, and every caller is handed the result that caller cached.
C8_ResolvedOnceUnderConcurrency ==
    /\ obs.n_isDeclared <= 1
    /\ obs.n_waitForService <= 1
    /\ obs.n_getService <= 1
    /\ Cardinality({ t \in Threads : th[t].pc = "isDeclared" }) <= 1
    /\ Cardinality({ t \in Threads : th[t].pc = "waitForService" }) <= 1
    /\ Cardinality({ t \in Threads : th[t].pc = "getService" }) <= 1
    /\ \A t \in Threads :
         /\ th[t].service \in {"unset", obs.first_aidl}
         /\ th[t].module \in {"unset", obs.first_hidl}
    /\ \A t \in Threads :
         /\ th[t].service = "aidl" =>
                glob.binder_guard = "done" /\ glob.memtrack_binder = "binder"
         /\ th[t].module = "hidl" =>
                glob.module_guard = "done" /\ glob.module = "hidl"

\* One caller is running the declaration check while another waits at the
\* guard of the same static.
C8_Witness ==
    \E t, u \in Threads :
        /\ t # u
        /\ th[t].pc = "isDeclared"
        /\ th[u].pc = "declared"
        /\ glob.declared_guard = "busy"

\* C20: with concurrent callers and neither provider available, at most one
\* caller is ever past the test of line 89 and before the set of line 90,
\* and the "unavailable" diagnostic is emitted at most once.
C20_LoggedOnceUnderConcurrency ==
    /\ Cardinality({ t \in Threads : th[t].pc = "log" }) <= 1
    /\ obs.n_ALOGE <= 1

====
